---- MODULE Spec2Model ----
(***************************************************************************)
(* Model of the Conan recipe recipes/thrift/all/conanfile.py (ThriftConan). *)
(* The recipe object carries a settings record, an option set and the       *)
(* records its methods fill in (requirements, toolchain variables,          *)
(* component descriptors).  Conan calls the methods one after the other;    *)
(* pc is the method that runs next.                                         *)
(*                                                                          *)
(* Strings the recipe computes with (option names it uppercases or tests    *)
(* for a prefix, library names it builds with format()) are sequences of    *)
(* one-character strings, so that upper(), startswith() and concatenation   *)
(* are computed and not assumed.                                            *)
(***************************************************************************)
EXTENDS Integers, Sequences, FiniteSets, TLC

VARIABLES
    os,                 \* self.settings.os
    compiler,           \* self.settings.compiler
    runtime,            \* self.settings.compiler.runtime ("static"/"dynamic"), "none" off MSVC
    build_type,         \* self.settings.build_type
    version,            \* self.version, a sequence of numbers (0.22.0 is <<0,22,0>>)
    options,            \* self.options: option name -> value; a removed option leaves the domain
    requires,           \* the sequence of self.requires(...) calls made so far
    tc_variables,       \* tc.variables
    tc_cache_variables, \* tc.cache_variables
    components,         \* self.cpp_info.components
    pc,                 \* the method or step that runs next
    log,                \* the build and package steps started so far, in order
    failed,             \* the step that raised, or "none"
    build_tree,         \* files in self.build_folder
    installed,          \* files the last cmake.install() wrote (its install manifest)
    package_tree        \* files in self.package_folder

vars == <<os, compiler, runtime, build_type, version, options, requires,
          tc_variables, tc_cache_variables, components, pc, log, failed,
          build_tree, installed, package_tree>>

settings_vars == <<os, compiler, runtime, build_type, version>>
tree_vars == <<log, failed, build_tree, installed, package_tree>>

----------------------------------------------------------------------------
(* Names *)

shared        == <<"s","h","a","r","e","d">>
fPIC          == <<"f","P","I","C">>
with_zlib     == <<"w","i","t","h","_","z","l","i","b">>
with_libevent == <<"w","i","t","h","_","l","i","b","e","v","e","n","t">>
with_openssl  == <<"w","i","t","h","_","o","p","e","n","s","s","l">>
with_c_glib   == <<"w","i","t","h","_","c","_","g","l","i","b">>
with_cpp      == <<"w","i","t","h","_","c","p","p">>
with_java     == <<"w","i","t","h","_","j","a","v","a">>
with_python   == <<"w","i","t","h","_","p","y","t","h","o","n">>
with_qt5      == <<"w","i","t","h","_","q","t","5">>
with_haskell  == <<"w","i","t","h","_","h","a","s","k","e","l","l">>

\* The keys of the options dict, in declaration order.
OptionNames == <<shared, fPIC, with_zlib, with_libevent, with_openssl, with_c_glib,
                 with_cpp, with_java, with_python, with_qt5, with_haskell>>

Range(s) == {s[i] : i \in DOMAIN s}

default_options ==
    [o \in Range(OptionNames) |->
        IF o \in {fPIC, with_zlib, with_libevent, with_openssl, with_cpp}
        THEN TRUE ELSE FALSE]

----------------------------------------------------------------------------
(* Strings and dicts, as Python computes them *)

LowerCase == <<"a","b","c","d","e","f","g","h","i","j","k","l","m",
               "n","o","p","q","r","s","t","u","v","w","x","y","z">>
UpperCase == <<"A","B","C","D","E","F","G","H","I","J","K","L","M",
               "N","O","P","Q","R","S","T","U","V","W","X","Y","Z">>

\* str.upper() on one character: lower-case letters change, nothing else does.
UpperChar(c) ==
    IF \E i \in DOMAIN LowerCase : LowerCase[i] = c
    THEN UpperCase[CHOOSE i \in DOMAIN LowerCase : LowerCase[i] = c]
    ELSE c

\* Faulty variant: upper() that leaves the name as it is.
upper_Identity(s) == s

upper(s) == [i \in 1..Len(s) |-> UpperChar(s[i])]

\* Faulty variant: a prefix test that only compares lengths.
startswith_LengthOnly(s, prefix) == Len(s) >= Len(prefix)

startswith(s, prefix) ==
    /\ Len(s) >= Len(prefix)
    /\ SubSeq(s, 1, Len(prefix)) = prefix

with_prefix == <<"w","i","t","h","_">>

\* d[k] = v on a dict
Assign(d, k, v) == [x \in (DOMAIN d) \cup {k} |-> IF x = k THEN v ELSE d[x]]

\* del d[k]
Remove(d, k) == [x \in (DOMAIN d) \ {k} |-> d[x]]

EmptyDict == <<>>

----------------------------------------------------------------------------
(* conan.tools.scm.Version: items compared as tuples, trailing zeros dropped *)

RECURSIVE NonZeroItems(_)
NonZeroItems(v) ==
    IF Len(v) > 0 /\ v[Len(v)] = 0
    THEN NonZeroItems(SubSeq(v, 1, Len(v) - 1))
    ELSE v

TupleLess(a, b) ==
    \/ \E i \in 1..Len(a) :
          /\ i <= Len(b)
          /\ a[i] < b[i]
          /\ \A j \in 1..(i - 1) : a[j] = b[j]
    \/ /\ Len(a) < Len(b)
       /\ \A j \in 1..Len(a) : a[j] = b[j]

\* Faulty variant: <= in place of <.
VersionLess_OrEqual(v, w) == ~TupleLess(NonZeroItems(w), NonZeroItems(v))

VersionLess(v, w) == TupleLess(NonZeroItems(v), NonZeroItems(w))

VersionGreaterEqual(v, w) == ~VersionLess(v, w)

\* Version(self.version) < "0.22.0"
PolicyThreshold == <<0, 22, 0>>

\* Version(self.version) >= "0.15.0"
ShlwapiThreshold == <<0, 15, 0>>

----------------------------------------------------------------------------
(* conan.tools.microsoft *)

is_msvc(compiler_) == compiler_ = "msvc"

is_msvc_static_runtime(compiler_, runtime_) ==
    is_msvc(compiler_) /\ runtime_ = "static"

----------------------------------------------------------------------------
(* config_options() and configure() *)

ConfigOptions(os_, opts) ==
    IF os_ = "Windows" THEN Remove(opts, fPIC) ELSE opts

\* Faulty variant: configure() that leaves fPIC in place.
Configure_KeepsFPIC(opts) == opts

\* rm_safe: removing an absent option is not an error
Configure(opts) ==
    IF opts[shared] THEN Remove(opts, fPIC) ELSE opts

----------------------------------------------------------------------------
(* requirements() *)

Requirement(name, ver, th) ==
    [name |-> name, version |-> ver, transitive_headers |-> th]

\* Faulty variant: zlib required whether or not with_zlib is on.
Requirements_ZlibAlways(opts) ==
    <<Requirement("boost", "1.85.0", TRUE)>>
    \o (IF opts[with_openssl] THEN <<Requirement("openssl", "[>=1.1 <4]", FALSE)>> ELSE <<>>)
    \o <<Requirement("zlib", "[>=1.2.11 <2]", FALSE)>>
    \o (IF opts[with_libevent] THEN <<Requirement("libevent", "2.1.12", FALSE)>> ELSE <<>>)
    \o (IF opts[with_qt5] THEN <<Requirement("qt", "5.15.13", FALSE)>> ELSE <<>>)

Requirements(opts) ==
    LET r0 == <<Requirement("boost", "1.85.0", TRUE)>>
        r1 == IF opts[with_openssl]
              THEN Append(r0, Requirement("openssl", "[>=1.1 <4]", FALSE)) ELSE r0
        r2 == IF opts[with_zlib]
              THEN Append(r1, Requirement("zlib", "[>=1.2.11 <2]", FALSE)) ELSE r1
        r3 == IF opts[with_libevent]
              THEN Append(r2, Requirement("libevent", "2.1.12", FALSE)) ELSE r2
        r4 == IF opts[with_qt5]
              THEN Append(r3, Requirement("qt", "5.15.13", FALSE)) ELSE r3
    IN  r4

----------------------------------------------------------------------------
(* generate() *)

BUILD_TESTING   == <<"B","U","I","L","D","_","T","E","S","T","I","N","G">>
BUILD_COMPILER  == <<"B","U","I","L","D","_","C","O","M","P","I","L","E","R">>
BUILD_LIBRARIES == <<"B","U","I","L","D","_","L","I","B","R","A","R","I","E","S">>
BUILD_TUTORIALS == <<"B","U","I","L","D","_","T","U","T","O","R","I","A","L","S">>
WITH_MT         == <<"W","I","T","H","_","M","T">>

\* self.options.items(): the options still present, with their values
OptionItems(opts) == SelectSeq(OptionNames, LAMBDA o : o \in DOMAIN opts)

\* for option, value in self.options.items():
\*     if option.startswith("with_"): tc.variables[option.upper()] = value
RECURSIVE ForwardOptions(_, _, _)
ForwardOptions(items, opts, d) ==
    IF items = <<>> THEN d
    ELSE LET option == Head(items)
             value  == opts[option]
             d1     == IF startswith(option, with_prefix)
                       THEN Assign(d, upper(option), value)
                       ELSE d
         IN  ForwardOptions(Tail(items), opts, d1)

ToolchainVariables(opts, compiler_, runtime_) ==
    LET v0 == ForwardOptions(OptionItems(opts), opts, EmptyDict)
        v1 == Assign(v0, BUILD_TESTING, FALSE)
        v2 == Assign(v1, BUILD_COMPILER, TRUE)
        v3 == Assign(v2, BUILD_LIBRARIES, TRUE)
        v4 == Assign(v3, BUILD_TUTORIALS, FALSE)
        v5 == IF is_msvc(compiler_)
              THEN Assign(v4, WITH_MT, is_msvc_static_runtime(compiler_, runtime_))
              ELSE v4
    IN  v5

ToolchainCacheVariables(version_) ==
    LET c0 == Assign(EmptyDict, "CMAKE_POLICY_DEFAULT_CMP0074", "NEW")
        c1 == IF VersionLess(version_, PolicyThreshold)
              THEN Assign(c0, "CMAKE_POLICY_VERSION_MINIMUM", "3.5")
              ELSE c0
    IN  c1

----------------------------------------------------------------------------
(* package_info() *)

\* Faulty variant: the runtime marker chosen without asking whether the compiler is MSVC.
libsuffix_RuntimeOnly(compiler_, runtime_, build_type_) ==
    (IF runtime_ = "static" THEN <<"m","t">>
     ELSE IF runtime_ = "dynamic" THEN <<"m","d">> ELSE <<>>)
    \o (IF build_type_ = "Debug" THEN <<"d">> ELSE <<>>)

libsuffix(compiler_, runtime_, build_type_) ==
    (IF is_msvc(compiler_)
     THEN (IF is_msvc_static_runtime(compiler_, runtime_)
           THEN <<"m","t">> ELSE <<"m","d">>)
     ELSE <<>>)
    \o (IF build_type_ = "Debug" THEN <<"d">> ELSE <<>>)

thrift    == <<"t","h","r","i","f","t">>
thriftz   == <<"t","h","r","i","f","t","z">>
thriftnb  == <<"t","h","r","i","f","t","n","b">>
thriftqt5 == <<"t","h","r","i","f","t","q","t","5">>

\* A requirement edge of a component: <<"libthrift">> names a component of this
\* package, <<"zlib", "zlib">> is "zlib::zlib", a component of another package.
Component(target, pkgconfig, lib, syslibs, reqs) ==
    [cmake_target_name |-> target, pkg_config_name |-> pkgconfig,
     libs |-> <<lib>>, system_libs |-> syslibs, requires |-> reqs]

LibthriftSystemLibs(os_, version_) ==
    IF os_ = "Windows"
    THEN (IF VersionGreaterEqual(version_, ShlwapiThreshold) THEN <<"shlwapi">> ELSE <<>>)
    ELSE IF os_ \in {"Linux", "FreeBSD"} THEN <<"m", "pthread">> ELSE <<>>

\* Faulty variant: libthrift that does not require openssl.
LibthriftRequires_NoOpenssl(opts) == <<<<"boost", "headers">>>>

LibthriftRequires(opts) ==
    <<<<"boost", "headers">>>>
    \o (IF opts[with_openssl] THEN <<<<"openssl", "openssl">>>> ELSE <<>>)

Libthrift(opts, os_, version_, sfx) ==
    Component("thrift::thrift", "thrift", thrift \o sfx,
              LibthriftSystemLibs(os_, version_), LibthriftRequires(opts))

LibthriftZ(sfx) ==
    Component("thriftz::thriftz", "thrift-z", thriftz \o sfx, <<>>,
              <<<<"libthrift">>, <<"zlib", "zlib">>>>)

\* Faulty variant: the event-loop component reaching libevent without libthrift.
LibthriftNb_BypassesBase(sfx) ==
    Component("thriftnb::thriftnb", "thrift-nb", thriftnb \o sfx, <<>>,
              <<<<"libevent", "libevent">>>>)

LibthriftNb(sfx) ==
    Component("thriftnb::thriftnb", "thrift-nb", thriftnb \o sfx, <<>>,
              <<<<"libthrift">>, <<"libevent", "libevent">>>>)

LibthriftQt5(sfx) ==
    Component("thriftqt5::thriftqt5", "thrift-qt5", thriftqt5 \o sfx, <<>>,
              <<<<"libthrift">>, <<"qt", "qtCore">>>>)

PackageInfo(opts, os_, compiler_, runtime_, build_type_, version_) ==
    LET sfx == libsuffix(compiler_, runtime_, build_type_)
        c0  == Assign(EmptyDict, "libthrift", Libthrift(opts, os_, version_, sfx))
        c1  == IF opts[with_zlib] THEN Assign(c0, "libthrift_z", LibthriftZ(sfx)) ELSE c0
        c2  == IF opts[with_libevent] THEN Assign(c1, "libthrift_nb", LibthriftNb(sfx)) ELSE c1
        c3  == IF opts[with_qt5] THEN Assign(c2, "libthrift_qt5", LibthriftQt5(sfx)) ELSE c2
    IN  c3

----------------------------------------------------------------------------
(* The inputs of one run of the recipe *)

\* settings.os, settings.compiler, settings.compiler.runtime, settings.build_type
Profiles ==
    {[os |-> o, compiler |-> c, runtime |-> r, build_type |-> b] :
        o \in {"Windows", "Linux", "FreeBSD", "Macos"},
        c \in {"msvc", "gcc", "clang", "apple-clang"},
        r \in {"static", "dynamic", "none"},
        b \in {"Debug", "Release"}}

ValidProfile(p) ==
    /\ p.compiler = "msvc" => p.os = "Windows"
    /\ p.compiler = "apple-clang" <=> p.os = "Macos"
    /\ p.compiler = "gcc" => p.runtime = "none"
    /\ p.compiler = "apple-clang" => p.runtime = "none"
    /\ p.compiler = "msvc" => p.runtime # "none"
    /\ p.compiler = "clang" => (p.runtime # "none" <=> p.os = "Windows")

Versions == {<<0, 14, 0>>, <<0, 21, 0>>, <<0, 22, 0>>, <<0, 22, 1>>}

OptionValues == [Range(OptionNames) -> BOOLEAN]

----------------------------------------------------------------------------
(* The recipe's methods, in the order Conan calls them.  build() and        *)
(* package() touch none of the records below; their steps are the actions   *)
(* of SpecBuild.                                                            *)

Init ==
    /\ \E p \in {q \in Profiles : ValidProfile(q)} :
          /\ os = p.os
          /\ compiler = p.compiler
          /\ runtime = p.runtime
          /\ build_type = p.build_type
    /\ version \in Versions
    /\ options \in OptionValues
    /\ requires = <<>>
    /\ tc_variables = EmptyDict
    /\ tc_cache_variables = EmptyDict
    /\ components = EmptyDict
    /\ pc = "config_options"
    /\ log = <<>>
    /\ failed = "none"
    /\ build_tree = {}
    /\ installed = {}
    /\ package_tree = {}

config_options ==
    /\ pc = "config_options"
    /\ options' = ConfigOptions(os, options)
    /\ pc' = "configure"
    /\ UNCHANGED <<settings_vars, requires, tc_variables, tc_cache_variables,
                   components, tree_vars>>

configure ==
    /\ pc = "configure"
    /\ options' = Configure(options)
    /\ pc' = "requirements"
    /\ UNCHANGED <<settings_vars, requires, tc_variables, tc_cache_variables,
                   components, tree_vars>>

requirements ==
    /\ pc = "requirements"
    /\ requires' = Requirements(options)
    /\ pc' = "generate"
    /\ UNCHANGED <<settings_vars, options, tc_variables, tc_cache_variables,
                   components, tree_vars>>

generate ==
    /\ pc = "generate"
    /\ tc_variables' = ToolchainVariables(options, compiler, runtime)
    /\ tc_cache_variables' = ToolchainCacheVariables(version)
    /\ pc' = "package_info"
    /\ UNCHANGED <<settings_vars, options, requires, components, tree_vars>>

package_info ==
    /\ pc = "package_info"
    /\ components' = PackageInfo(options, os, compiler, runtime, build_type, version)
    /\ pc' = "done"
    /\ UNCHANGED <<settings_vars, options, requires, tc_variables,
                   tc_cache_variables, tree_vars>>

Next ==
    \/ config_options
    \/ configure
    \/ requirements
    \/ generate
    \/ package_info

Spec == Init /\ [][Next]_vars

----------------------------------------------------------------------------
(* build() and package(): files and steps                                   *)
(*                                                                          *)
(* A file is [dir, name, ext]: the directories above it, relative to the    *)
(* root of its tree, and its name split at the last dot.  The external      *)
(* tools (cmake configure, build, install) write some subset of the files   *)
(* they can write, and exit zero or not.                                    *)

File(dir, name, ext) == [dir |-> dir, name |-> name, ext |-> ext]

lib_cmake     == <<"lib", "cmake">>
lib_pkgconfig == <<"lib", "pkgconfig">>

\* What cmake.configure() and cmake.build() can leave in the build folder.
BuildOutputs ==
    { File(<<"thrift">>, "config", "h"),
      File(<<"compiler", "cpp", "thrift">>, "version", "h"),
      File(<<"lib", "cmake">>, "probe", "h"),
      File(<<>>, "CMakeCache", "txt"),
      File(<<"lib">>, "libthrift", "a") }

\* What cmake.install() can put in the package folder.
InstallOutputs ==
    { File(<<"lib">>, "libthrift", "a"),
      File(<<"bin">>, "thrift", ""),
      File(<<"include", "thrift">>, "Thrift", "h"),
      File(<<"lib", "cmake", "thrift">>, "ThriftConfig", "cmake"),
      File(<<"lib", "cmake", "thrift">>, "FindLibevent", "cmake"),
      File(<<"lib", "pkgconfig">>, "thrift", "pc") }

MaxGenerated == 2
MaxInstalled == 3

\* fnmatch(name, "*.h")
MatchesHeader(f) == f.ext = "h"

\* copy(self, "LICENSE", src=self.source_folder, dst=<package>/licenses)
CopyLicense(tree) == tree \cup {File(<<"licenses">>, "LICENSE", "")}

\* copy(self, "*.h", src=self.build_folder, dst=<package>/include, keep_path=True)
CopyHeaders(src, tree) ==
    tree \cup {File(<<"include">> \o f.dir, f.name, f.ext) : f \in {g \in src : MatchesHeader(g)}}

\* Faulty variant: rmdir that removes the files directly in dir and keeps its subdirectories.
rmdir_TopLevelOnly(tree, dir) == {f \in tree : f.dir # dir}

\* rmdir(self, <package>/dir): the directory and everything below it
rmdir(tree, dir) == {f \in tree : ~startswith(f.dir, dir)}

HasDir(tree, dir) == \E f \in tree : startswith(f.dir, dir)

StepOrder == <<"patch_sources", "cmake_configure", "cmake_build", "copy_license",
               "cmake_install", "copy_headers", "rmdir_cmake", "rmdir_pkgconfig">>

IndexOf(step) == CHOOSE i \in DOMAIN StepOrder : StepOrder[i] = step

\* Faulty variant: a step whose failure is swallowed.
AfterStep_IgnoresFailure(step, ok) ==
    IF IndexOf(step) = Len(StepOrder) THEN "package_info"
    ELSE StepOrder[IndexOf(step) + 1]

\* The statement after `step`: the next one when it returned, none when it raised
\* (nothing in build() or package() catches an exception).
AfterStep(step, ok) ==
    IF ~ok THEN "failed"
    ELSE IF IndexOf(step) = Len(StepOrder) THEN "package_info"
    ELSE StepOrder[IndexOf(step) + 1]

Raised(step, ok) == IF ok THEN "none" ELSE step

\* The recipe after generate(), for the default options.
InitBuild ==
    /\ \E p \in {q \in Profiles : ValidProfile(q)} :
          /\ os = p.os
          /\ compiler = p.compiler
          /\ runtime = p.runtime
          /\ build_type = p.build_type
    /\ version \in Versions
    /\ options = Configure(ConfigOptions(os, default_options))
    /\ requires = Requirements(options)
    /\ tc_variables = ToolchainVariables(options, compiler, runtime)
    /\ tc_cache_variables = ToolchainCacheVariables(version)
    /\ components = EmptyDict
    /\ pc = "patch_sources"
    /\ log = <<>>
    /\ failed = "none"
    /\ build_tree = {}
    /\ installed = {}
    /\ package_tree = {}

recipe_vars == <<settings_vars, options, requires, tc_variables, tc_cache_variables,
                 components>>

\* _patch_sources(): apply_conandata_patches and replace_in_file raise on a patch
\* that does not apply or a missing pattern.
patch_sources ==
    /\ pc = "patch_sources"
    /\ \E ok \in BOOLEAN :
          /\ pc' = AfterStep("patch_sources", ok)
          /\ failed' = Raised("patch_sources", ok)
    /\ log' = Append(log, "patch_sources")
    /\ UNCHANGED <<recipe_vars, build_tree, installed, package_tree>>

cmake_configure ==
    /\ pc = "cmake_configure"
    /\ \E ok \in BOOLEAN, out \in SUBSET BuildOutputs :
          /\ Cardinality(out) <= MaxGenerated
          /\ build_tree' = build_tree \cup out
          /\ pc' = AfterStep("cmake_configure", ok)
          /\ failed' = Raised("cmake_configure", ok)
    /\ log' = Append(log, "cmake_configure")
    /\ UNCHANGED <<recipe_vars, installed, package_tree>>

cmake_build ==
    /\ pc = "cmake_build"
    /\ \E ok \in BOOLEAN, out \in SUBSET BuildOutputs :
          /\ Cardinality(build_tree \cup out) <= MaxGenerated
          /\ build_tree' = build_tree \cup out
          /\ pc' = AfterStep("cmake_build", ok)
          /\ failed' = Raised("cmake_build", ok)
    /\ log' = Append(log, "cmake_build")
    /\ UNCHANGED <<recipe_vars, installed, package_tree>>

copy_license ==
    /\ pc = "copy_license"
    /\ package_tree' = CopyLicense(package_tree)
    /\ pc' = AfterStep("copy_license", TRUE)
    /\ log' = Append(log, "copy_license")
    /\ UNCHANGED <<recipe_vars, failed, build_tree, installed>>

cmake_install ==
    /\ pc = "cmake_install"
    /\ \E ok \in BOOLEAN, out \in SUBSET InstallOutputs :
          /\ Cardinality(out) <= MaxInstalled
          /\ installed' = out
          /\ package_tree' = package_tree \cup out
          /\ pc' = AfterStep("cmake_install", ok)
          /\ failed' = Raised("cmake_install", ok)
    /\ log' = Append(log, "cmake_install")
    /\ UNCHANGED <<recipe_vars, build_tree>>

copy_headers ==
    /\ pc = "copy_headers"
    /\ package_tree' = CopyHeaders(build_tree, package_tree)
    /\ pc' = AfterStep("copy_headers", TRUE)
    /\ log' = Append(log, "copy_headers")
    /\ UNCHANGED <<recipe_vars, failed, build_tree, installed>>

rmdir_cmake ==
    /\ pc = "rmdir_cmake"
    /\ package_tree' = rmdir(package_tree, lib_cmake)
    /\ pc' = AfterStep("rmdir_cmake", TRUE)
    /\ log' = Append(log, "rmdir_cmake")
    /\ UNCHANGED <<recipe_vars, failed, build_tree, installed>>

rmdir_pkgconfig ==
    /\ pc = "rmdir_pkgconfig"
    /\ package_tree' = rmdir(package_tree, lib_pkgconfig)
    /\ pc' = AfterStep("rmdir_pkgconfig", TRUE)
    /\ log' = Append(log, "rmdir_pkgconfig")
    /\ UNCHANGED <<recipe_vars, failed, build_tree, installed>>

NextBuild ==
    \/ patch_sources
    \/ cmake_configure
    \/ cmake_build
    \/ copy_license
    \/ cmake_install
    \/ copy_headers
    \/ rmdir_cmake
    \/ rmdir_pkgconfig
    \/ package_info

SpecBuild == InitBuild /\ [][NextBuild]_vars

----------------------------------------------------------------------------
(* Properties *)

OptionsResolved  == pc \notin {"config_options", "configure"}
RequirementsDone == pc \notin {"config_options", "configure", "requirements"}
GenerateDone     == pc \notin {"config_options", "configure", "requirements", "generate"}
PackageInfoDone  == pc = "done"

FeatureToggles == {with_zlib, with_libevent, with_openssl, with_c_glib, with_cpp,
                   with_java, with_python, with_qt5, with_haskell}

RequiredNames == {requires[i].name : i \in DOMAIN requires}

\* How many self.requires() calls named this package
Declared(name) == Cardinality({i \in DOMAIN requires : requires[i].name = name})

\* C1: once config_options() and configure() have run, the option set has no fPIC
\* whenever the target OS is Windows or shared is true.
C1_fPICRemoved ==
    OptionsResolved =>
        ((os = "Windows" \/ options[shared]) => fPIC \notin DOMAIN options)

\* shared=true off Windows: config_options() kept fPIC and configure() removed it.
C1_Witness ==
    /\ pc = "requirements"
    /\ os = "Linux"
    /\ options[shared]
    /\ fPIC \notin DOMAIN options

\* C2: requirements() declares boost always, openssl, zlib, libevent and qt exactly
\* when their option is on, each once, and nothing else.
C2_ExactDependencies ==
    RequirementsDone =>
        /\ RequiredNames =
              {"boost"}
              \cup (IF options[with_openssl]  THEN {"openssl"}  ELSE {})
              \cup (IF options[with_zlib]     THEN {"zlib"}     ELSE {})
              \cup (IF options[with_libevent] THEN {"libevent"} ELSE {})
              \cup (IF options[with_qt5]      THEN {"qt"}       ELSE {})
        /\ Len(requires) = Cardinality(RequiredNames)

C2_Witness ==
    /\ pc = "generate"
    /\ options[with_qt5] /\ options[with_openssl]
    /\ ~options[with_zlib] /\ ~options[with_libevent]
    /\ Len(requires) = 3

FeatureComponent(c, option, dep) ==
    /\ c \in DOMAIN components <=> options[option]
    /\ c \in DOMAIN components =>
          /\ <<"libthrift">> \in Range(components[c].requires)
          /\ dep \in Range(components[c].requires)

\* C3: package_info() emits a feature component exactly when its option is on, and
\* its requirement list holds the base component libthrift and the feature's own
\* external dependency.
C3_FeatureComponentsRequireBase ==
    PackageInfoDone =>
        /\ FeatureComponent("libthrift_z", with_zlib, <<"zlib", "zlib">>)
        /\ FeatureComponent("libthrift_nb", with_libevent, <<"libevent", "libevent">>)
        /\ FeatureComponent("libthrift_qt5", with_qt5, <<"qt", "qtCore">>)
        /\ "libthrift" \in DOMAIN components

C3_Witness ==
    /\ pc = "done"
    /\ options[with_zlib] /\ ~options[with_libevent] /\ options[with_qt5]
    /\ DOMAIN components = {"libthrift", "libthrift_z", "libthrift_qt5"}

\* The suffix the specification states, case by case.
ExpectedSuffix ==
    CASE compiler = "msvc" /\ runtime = "static" /\ build_type = "Debug" -> <<"m","t","d">>
      [] compiler = "msvc" /\ runtime = "static" /\ build_type # "Debug" -> <<"m","t">>
      [] compiler = "msvc" /\ runtime # "static" /\ build_type = "Debug" -> <<"m","d","d">>
      [] compiler = "msvc" /\ runtime # "static" /\ build_type # "Debug" -> <<"m","d">>
      [] compiler # "msvc" /\ build_type = "Debug" -> <<"d">>
      [] compiler # "msvc" /\ build_type # "Debug" -> <<>>

BaseLibName(c) ==
    CASE c = "libthrift"     -> thrift
      [] c = "libthrift_z"   -> thriftz
      [] c = "libthrift_nb"  -> thriftnb
      [] c = "libthrift_qt5" -> thriftqt5

\* C4: every component's library name is its base name followed by the suffix fixed
\* by (compiler is MSVC, static runtime, Debug build), whatever the options are.
C4_LibSuffix ==
    PackageInfoDone =>
        \A c \in DOMAIN components :
            components[c].libs = <<BaseLibName(c) \o ExpectedSuffix>>

C4_Witness ==
    /\ pc = "done"
    /\ compiler = "msvc" /\ runtime = "static" /\ build_type = "Debug"
    /\ options[with_zlib] /\ options[with_libevent] /\ options[with_qt5]
    /\ components["libthrift_nb"].libs = <<thriftnb \o <<"m","t","d">>>>

\* version as one number, major.minor.patch with absent items zero
VersionNumber(v) ==
    (IF Len(v) >= 1 THEN v[1] ELSE 0) * 1000000
    + (IF Len(v) >= 2 THEN v[2] ELSE 0) * 1000
    + (IF Len(v) >= 3 THEN v[3] ELSE 0)

\* C6: generate() sets CMAKE_POLICY_VERSION_MINIMUM, to "3.5", exactly when the
\* version is below 0.22.0.
C6_PolicyVersionMinimum ==
    GenerateDone =>
        /\ "CMAKE_POLICY_VERSION_MINIMUM" \in DOMAIN tc_cache_variables
              <=> VersionNumber(version) < VersionNumber(<<0, 22, 0>>)
        /\ "CMAKE_POLICY_VERSION_MINIMUM" \in DOMAIN tc_cache_variables
              => tc_cache_variables["CMAKE_POLICY_VERSION_MINIMUM"] = "3.5"

\* At the threshold itself the variable is absent.
C6_Witness ==
    /\ pc = "package_info"
    /\ version = <<0, 22, 0>>
    /\ DOMAIN tc_cache_variables = {"CMAKE_POLICY_DEFAULT_CMP0074"}

\* The build-tool variable of each feature toggle, spelled out.
ForwardedName(o) ==
    CASE o = with_zlib     -> <<"W","I","T","H","_","Z","L","I","B">>
      [] o = with_libevent -> <<"W","I","T","H","_","L","I","B","E","V","E","N","T">>
      [] o = with_openssl  -> <<"W","I","T","H","_","O","P","E","N","S","S","L">>
      [] o = with_c_glib   -> <<"W","I","T","H","_","C","_","G","L","I","B">>
      [] o = with_cpp      -> <<"W","I","T","H","_","C","P","P">>
      [] o = with_java     -> <<"W","I","T","H","_","J","A","V","A">>
      [] o = with_python   -> <<"W","I","T","H","_","P","Y","T","H","O","N">>
      [] o = with_qt5      -> <<"W","I","T","H","_","Q","T","5">>
      [] o = with_haskell  -> <<"W","I","T","H","_","H","A","S","K","E","L","L">>

FixedVariables == {BUILD_TESTING, BUILD_COMPILER, BUILD_LIBRARIES, BUILD_TUTORIALS}

\* C7: generate() forwards every with_ option under its uppercased name with the
\* option's value and forwards no other option; BUILD_TESTING and BUILD_TUTORIALS
\* are false, BUILD_COMPILER and BUILD_LIBRARIES true, whatever the options are.
C7_ForwardedOptions ==
    GenerateDone =>
        /\ \A o \in FeatureToggles :
              /\ ForwardedName(o) \in DOMAIN tc_variables
              /\ tc_variables[ForwardedName(o)] = options[o]
        /\ DOMAIN tc_variables \ (FixedVariables \cup {WITH_MT})
              = {ForwardedName(o) : o \in FeatureToggles}
        /\ tc_variables[BUILD_TESTING] = FALSE
        /\ tc_variables[BUILD_TUTORIALS] = FALSE
        /\ tc_variables[BUILD_COMPILER] = TRUE
        /\ tc_variables[BUILD_LIBRARIES] = TRUE

\* shared is on and fPIC still present, and neither is forwarded.
C7_Witness ==
    /\ pc = "package_info"
    /\ fPIC \in DOMAIN options
    /\ options[fPIC] /\ ~options[shared]
    /\ options[with_java] /\ ~options[with_cpp]
    /\ tc_variables[ForwardedName(with_java)] = TRUE
    /\ tc_variables[ForwardedName(with_cpp)] = FALSE
    /\ Cardinality(DOMAIN tc_variables) = 13

EnabledToggles == {o \in FeatureToggles : options[o]}

\* The external package requirements() declares for a feature toggle.
DependencyToggles == {with_openssl, with_zlib, with_libevent, with_qt5}

DependencyOf(o) ==
    CASE o = with_openssl  -> "openssl"
      [] o = with_zlib     -> "zlib"
      [] o = with_libevent -> "libevent"
      [] o = with_qt5      -> "qt"

\* C8 as stated: every enabled feature toggle, of all nine, has one external
\* dependency of its own (so the dependencies beyond boost are as many as the
\* enabled toggles) and one build-tool variable.
C8_Original ==
    GenerateDone =>
        /\ Len(requires) - 1 = Cardinality(EnabledToggles)
        /\ \A o \in EnabledToggles : ForwardedName(o) \in DOMAIN tc_variables

\* C8 as amended: every enabled toggle has its one build-tool variable; the toggles
\* with_openssl, with_zlib, with_libevent and with_qt5 have exactly one external
\* dependency each when enabled and none when disabled; the other five toggles
\* add no dependency.
C8_FlagPerToggleDependencyPerLibraryToggle ==
    GenerateDone =>
        /\ \A o \in EnabledToggles :
              /\ ForwardedName(o) \in DOMAIN tc_variables
              /\ tc_variables[ForwardedName(o)] = TRUE
        /\ \A o \in DependencyToggles :
              Declared(DependencyOf(o)) = (IF options[o] THEN 1 ELSE 0)
        /\ Len(requires) - 1 = Cardinality(EnabledToggles \cap DependencyToggles)

\* with_cpp and with_python are on with no dependency of their own.
C8_Witness ==
    /\ pc = "package_info"
    /\ EnabledToggles = {with_cpp, with_python, with_zlib}
    /\ RequiredNames = {"boost", "zlib"}
    /\ tc_variables[ForwardedName(with_python)] = TRUE

\* The external packages the components' requirement lists refer to.
ReferencedPackages ==
    {r[1] : r \in {q \in UNION {Range(components[c].requires) : c \in DOMAIN components} :
                      Len(q) = 2}}

\* C10: the packages referred to by the components package_info() emits are exactly
\* the packages requirements() declared.
C10_ComponentsUseDeclaredDependencies ==
    PackageInfoDone => ReferencedPackages = RequiredNames

C10_Witness ==
    /\ pc = "done"
    /\ options[with_openssl] /\ options[with_libevent]
    /\ ~options[with_zlib] /\ ~options[with_qt5]
    /\ ReferencedPackages = {"boost", "openssl", "libevent"}

----------------------------------------------------------------------------
(* Properties of build() and package(), under SpecBuild *)

PackageCompleted == Len(log) = Len(StepOrder)

\* C5: when package() has completed, the package tree has neither lib/cmake nor
\* lib/pkgconfig, whatever cmake.install() and the copy of generated headers put
\* there.
C5_NoMetadataDirectories ==
    PackageCompleted =>
        /\ ~HasDir(package_tree, lib_cmake)
        /\ ~HasDir(package_tree, lib_pkgconfig)

\* install wrote both directories, and a header sat under lib/cmake in the build tree
C5_Witness ==
    /\ PackageCompleted
    /\ HasDir(installed, lib_cmake)
    /\ HasDir(installed, lib_pkgconfig)
    /\ File(<<"lib", "cmake">>, "probe", "h") \in build_tree
    /\ File(<<"include", "lib", "cmake">>, "probe", "h") \in package_tree

BuildSteps == {"patch_sources", "cmake_configure", "cmake_build"}

\* C9: the steps run in the one fixed order, each at most once; the step that fails
\* is the last one that runs; after a failed patch, configure or build nothing has
\* been put in the package tree.
C9_StepsInOrderFailureFatal ==
    /\ Len(log) <= Len(StepOrder)
    /\ \A i \in DOMAIN log : log[i] = StepOrder[i]
    /\ failed # "none" <=> pc = "failed"
    /\ failed # "none" => (log # <<>> /\ log[Len(log)] = failed)
    /\ failed \in BuildSteps => package_tree = {}
    /\ pc \in Range(StepOrder) => (failed = "none" /\ Len(log) = IndexOf(pc) - 1)

\* configure wrote into the build tree and then failed
C9_Witness ==
    /\ pc = "failed"
    /\ failed = "cmake_configure"
    /\ log = <<"patch_sources", "cmake_configure">>
    /\ build_tree # {}
    /\ package_tree = {}

====
